---- MODULE Spec2Model ----
(***************************************************************************)
(* A model of the owner statement generator (src/streamlit_app.py): the    *)
(* OwnerStatementProcessor, the bank verification stand-in, statement      *)
(* generation and the configuration page's edits of the session state.     *)
(*                                                                         *)
(* Every amount and percentage of the program is a Python float, an IEEE   *)
(* 754 binary64 number.  The model keeps that arithmetic: a number is a    *)
(* sign, an odd integer mantissa and a binary exponent, and every          *)
(* operation rounds its exact result to Precision bits, ties to even.      *)
(* Mantissas are little-endian sequences of 15-bit limbs, because the      *)
(* intermediate products do not fit the integers of the model checker.     *)
(* The inputs the model draws keep all values far inside the exponent      *)
(* range of binary64, so infinities, NaN and subnormals do not occur.      *)
(***************************************************************************)
EXTENDS Integers, Sequences, FiniteSets, TLC

(***************************************************************************)
(* Natural numbers of any size: little-endian sequences of limbs in        *)
(* 0..32767 without leading (high) zero limbs; <<>> is zero.               *)
(***************************************************************************)
RECURSIVE BigOfInt(_)
BigOfInt(n) ==
    IF n = 0 THEN <<>> ELSE <<n % 32768>> \o BigOfInt(n \div 32768)

RECURSIVE BigTrim(_)
BigTrim(x) ==
    IF x = <<>> THEN x
    ELSE IF x[Len(x)] = 0 THEN BigTrim(SubSeq(x, 1, Len(x) - 1))
    ELSE x

Limb(x, i) == IF i >= 1 /\ i <= Len(x) THEN x[i] ELSE 0

RECURSIVE BigAddFrom(_, _, _, _)
BigAddFrom(a, b, i, c) ==
    IF i > Len(a) /\ i > Len(b)
    THEN (IF c = 0 THEN <<>> ELSE <<c>>)
    ELSE LET t == Limb(a, i) + Limb(b, i) + c
         IN  <<t % 32768>> \o BigAddFrom(a, b, i + 1, t \div 32768)

BigAdd(a, b) == BigTrim(BigAddFrom(a, b, 1, 0))

RECURSIVE BigSubFrom(_, _, _, _)
BigSubFrom(a, b, i, br) ==
    IF i > Len(a) THEN <<>>
    ELSE LET t == Limb(a, i) - Limb(b, i) - br
         IN  <<(t + 32768) % 32768>>
                \o BigSubFrom(a, b, i + 1, IF t < 0 THEN 1 ELSE 0)

\* a - b for a >= b
BigSub(a, b) == BigTrim(BigSubFrom(a, b, 1, 0))

RECURSIVE BigCmpFrom(_, _, _)
BigCmpFrom(a, b, i) ==
    IF i = 0 THEN 0
    ELSE IF a[i] > b[i] THEN 1
    ELSE IF a[i] < b[i] THEN -1
    ELSE BigCmpFrom(a, b, i - 1)

\* -1, 0 or 1 as a < b, a = b or a > b
BigCmp(a, b) ==
    IF Len(a) > Len(b) THEN 1
    ELSE IF Len(a) < Len(b) THEN -1
    ELSE BigCmpFrom(a, b, Len(a))

RECURSIVE BigMulLimbFrom(_, _, _, _)
BigMulLimbFrom(a, d, i, c) ==
    IF i > Len(a)
    THEN (IF c = 0 THEN <<>> ELSE <<c>>)
    ELSE LET t == a[i] * d + c
         IN  <<t % 32768>> \o BigMulLimbFrom(a, d, i + 1, t \div 32768)

RECURSIVE BigMulFrom(_, _, _)
BigMulFrom(a, b, j) ==
    IF j > Len(b) THEN <<>>
    ELSE BigAddFrom(BigMulLimbFrom(a, b[j], 1, 0),
                    <<0>> \o BigMulFrom(a, b, j + 1), 1, 0)

BigMul(a, b) == BigTrim(BigMulFrom(a, b, 1))

RECURSIVE BigDivSmallFrom(_, _, _, _)
BigDivSmallFrom(a, d, i, r) ==
    IF i = 0 THEN [q |-> <<>>, r |-> r]
    ELSE LET t    == r * 32768 + a[i]
             rest == BigDivSmallFrom(a, d, i - 1, t % d)
         IN  [q |-> rest.q \o <<t \div d>>, r |-> rest.r]

\* quotient and remainder of a by an integer d in 1..32767
BigDivSmall(a, d) ==
    LET x == BigDivSmallFrom(a, d, Len(a), 0)
    IN  [q |-> BigTrim(x.q), r |-> x.r]

RECURSIVE BitLenInt(_)
BitLenInt(n) == IF n = 0 THEN 0 ELSE 1 + BitLenInt(n \div 2)

RECURSIVE TzInt(_)
TzInt(n) == IF n % 2 = 1 THEN 0 ELSE 1 + TzInt(n \div 2)

BigBitLen(a) ==
    IF a = <<>> THEN 0 ELSE 15 * (Len(a) - 1) + BitLenInt(a[Len(a)])

\* bit i of a (bit 0 is the lowest)
BigBit(a, i) == (Limb(a, (i \div 15) + 1) \div (2 ^ (i % 15))) % 2

\* a * 2^k
BigShl(a, k) ==
    IF a = <<>> THEN <<>>
    ELSE [i \in 1..(k \div 15) |-> 0] \o BigMulLimbFrom(a, 2 ^ (k % 15), 1, 0)

\* floor(a / 2^k)
BigShr(a, k) ==
    LET r == k % 15
        b == SubSeq(a, (k \div 15) + 1, Len(a))
    IN  BigTrim([i \in 1..Len(b) |->
                    (b[i] \div (2 ^ r)) + (Limb(b, i + 1) % (2 ^ r)) * (2 ^ (15 - r))])

\* the low k bits of a are all zero
BigLowZero(a, k) ==
    /\ \A i \in 1..(k \div 15) : Limb(a, i) = 0
    /\ Limb(a, (k \div 15) + 1) % (2 ^ (k % 15)) = 0

RECURSIVE BigTzFrom(_, _)
BigTzFrom(a, i) ==
    IF a[i] = 0 THEN 15 + BigTzFrom(a, i + 1) ELSE TzInt(a[i])

\* the number of trailing zero bits of a # 0
BigTz(a) == BigTzFrom(a, 1)

(***************************************************************************)
(* Python floats.  [neg, man, exp] is (-1)^neg * man * 2^exp with man odd, *)
(* or zero; the form is canonical, so = on records is == on floats.        *)
(***************************************************************************)
Precision == 53

FZero == [neg |-> FALSE, man |-> <<>>, exp |-> 0]

Canon(neg, m, e) ==
    IF m = <<>> THEN FZero
    ELSE LET z == BigTz(m)
         IN  [neg |-> neg, man |-> BigShr(m, z), exp |-> e + z]

\* the binary64 nearest to (-1)^neg * m * 2^e, ties to even
Round(neg, m, e) ==
    LET L == BigBitLen(m)
    IN  IF L <= Precision THEN Canon(neg, m, e)
        ELSE LET k  == L - Precision
                 q  == BigShr(m, k)
                 up == /\ BigBit(m, k - 1) = 1
                       /\ (~BigLowZero(m, k - 1) \/ BigBit(q, 0) = 1)
             IN  Canon(neg, IF up THEN BigAdd(q, <<1>>) ELSE q, e + k)

FRound(x) == Round(x.neg, x.man, x.exp)

\* the exact sum and product, of unbounded precision
ExactAdd(a, b) ==
    IF a.man = <<>> THEN b
    ELSE IF b.man = <<>> THEN a
    ELSE LET e  == IF a.exp < b.exp THEN a.exp ELSE b.exp
             ma == BigShl(a.man, a.exp - e)
             mb == BigShl(b.man, b.exp - e)
             c  == BigCmp(ma, mb)
         IN  IF a.neg = b.neg THEN Canon(a.neg, BigAdd(ma, mb), e)
             ELSE IF c = 0 THEN FZero
             ELSE IF c = 1 THEN Canon(a.neg, BigSub(ma, mb), e)
             ELSE Canon(b.neg, BigSub(mb, ma), e)

ExactMul(a, b) ==
    IF a.man = <<>> \/ b.man = <<>> THEN FZero
    ELSE Canon(a.neg # b.neg, BigMul(a.man, b.man), a.exp + b.exp)

FNeg(a) == IF a.man = <<>> THEN a ELSE [a EXCEPT !.neg = ~a.neg]

FAbs(a) == [a EXCEPT !.neg = FALSE]

\* a + b, a - b, a * b of Python floats
FAdd(a, b) == FRound(ExactAdd(a, b))

FSub(a, b) == FRound(ExactAdd(a, FNeg(b)))

FMul(a, b) == FRound(ExactMul(a, b))

\* a / d of a Python float by the integer d in 1..32767: the quotient is
\* taken to more than Precision + 2 bits and a sticky bit is appended
FDivInt(a, d) ==
    IF a.man = <<>> THEN FZero
    ELSE LET x == BigDivSmall(BigShl(a.man, 75), d)
             m == BigAdd(BigShl(x.q, 1), IF x.r = 0 THEN <<>> ELSE <<1>>)
         IN  Round(a.neg, m, a.exp - 76)

\* a < b, a <= b, a > b on Python floats
FLt(a, b) == LET d == ExactAdd(a, FNeg(b)) IN d.man # <<>> /\ d.neg

FLe(a, b) == LET d == ExactAdd(a, FNeg(b)) IN d.man = <<>> \/ d.neg

FGt(a, b) == FLt(b, a)

\* the float of an integer literal, and of the decimal literal n/d
FInt(n) == Canon(n < 0, BigOfInt(IF n < 0 THEN -n ELSE n), 0)

Dec(n, d) == FDivInt(FInt(n), d)

(***************************************************************************)
(* Python dicts and lists.                                                 *)
(***************************************************************************)
\* d.get(k, default)
Get(d, k, default) == IF k \in DOMAIN d THEN d[k] ELSE default

\* DictUpdate with the default's value kept where both have the key
DictUpdateKeepDefault(d, o) ==
    [k \in (DOMAIN d) \cup (DOMAIN o) |-> IF k \in DOMAIN d THEN d[k] ELSE o[k]]

\* d.copy() followed by .update(o)
DictUpdate(d, o) ==
    [k \in (DOMAIN d) \cup (DOMAIN o) |-> IF k \in DOMAIN o THEN o[k] ELSE d[k]]

\* del d[k]
DictDel(d, k) == [j \in (DOMAIN d) \ {k} |-> d[j]]

\* ListInsert as list.append(x)
ListInsertAtEnd(s, i, x) == s \o <<x>>

\* list.insert(i, x): a negative i counts from the end, and i is clamped
ListInsert(s, i, x) ==
    LET j == IF i < 0 THEN (IF Len(s) + i < 0 THEN 0 ELSE Len(s) + i)
             ELSE (IF i > Len(s) THEN Len(s) ELSE i)
    IN  SubSeq(s, 1, j) \o <<x>> \o SubSeq(s, j + 1, Len(s))

\* sum(...) of a sequence of floats: 0 + s[1] + s[2] + ..., left to right
RECURSIVE SumTo(_, _)
SumTo(s, n) == IF n = 0 THEN FZero ELSE FAdd(SumTo(s, n - 1), s[n])

\* Sum that takes the first element only
SumFirstOnly(s) == IF s = <<>> THEN FZero ELSE s[1]

Sum(s) == SumTo(s, Len(s))

(***************************************************************************)
(* The heap of dict objects.  The session's config dict, the processor and *)
(* a processed statement hold references to settings dicts, so a dict is   *)
(* an address and heap[a] its content.  Objects nothing refers to are      *)
(* dropped, and a new object takes the lowest free address.                *)
(***************************************************************************)
Alloc(h) ==
    CHOOSE a \in 1..(Cardinality(DOMAIN h) + 1) :
        a \notin DOMAIN h /\ \A b \in 1..(a - 1) : b \in DOMAIN h

Collect(h, roots) == [a \in (DOMAIN h) \cap roots |-> h[a]]

(***************************************************************************)
(* class OwnerStatementProcessor                                           *)
(***************************************************************************)
PctKeys ==
    {"management_fee_percentage", "supplies_estimate_percentage",
     "utilities_estimate_percentage"}

\* __init__: the processor keeps the two dicts of the config it is given.
\* Every caller passes the session's config, which is never empty.
OwnerStatementProcessor(config_data) ==
    [default_settings |-> config_data.default_settings,
     client_overrides |-> config_data.client_overrides]

\* get_client_settings that never looks at the overrides
get_client_settings_default_only(self, h, tag) ==
    [ref |-> self.default_settings, heap |-> h]

\* get_client_settings that merges the override into the default settings
\* dict itself
get_client_settings_in_place(self, h, tag) ==
    IF tag \in DOMAIN h[self.client_overrides]
    THEN [ref  |-> self.default_settings,
          heap |-> [h EXCEPT ![self.default_settings] =
                        DictUpdate(h[self.default_settings],
                                   h[self.client_overrides][tag])]]
    ELSE [ref |-> self.default_settings, heap |-> h]

\* get_client_settings that gives a tag without an override the override
\* of some other tag
get_client_settings_fallback(self, h, tag) ==
    IF DOMAIN h[self.client_overrides] # {}
    THEN [ref  |-> Alloc(h),
          heap |-> h @@ (Alloc(h) :>
                    DictUpdate(h[self.default_settings],
                        h[self.client_overrides][
                            IF tag \in DOMAIN h[self.client_overrides]
                            THEN tag
                            ELSE CHOOSE t \in DOMAIN h[self.client_overrides] : TRUE]))]
    ELSE [ref |-> self.default_settings, heap |-> h]

\* get_client_settings that stores the merged dict as the tag's override
get_client_settings_store_merged(self, h, tag) ==
    IF tag \in DOMAIN h[self.client_overrides]
    THEN [ref  |-> Alloc(h),
          heap |-> [h EXCEPT ![self.client_overrides][tag] =
                        DictUpdate(h[self.default_settings], @)]
                   @@ (Alloc(h) :> DictUpdate(h[self.default_settings],
                                       h[self.client_overrides][tag]))]
    ELSE [ref |-> self.default_settings, heap |-> h]

\* The settings dict for tag and the heap after the call: a new merged dict
\* when the tag has an override, the default settings dict itself otherwise.
get_client_settings(self, h, tag) ==
    IF tag \in DOMAIN h[self.client_overrides]
    THEN LET a == Alloc(h)
         IN  [ref  |-> a,
              heap |-> h @@ (a :> DictUpdate(h[self.default_settings],
                                             h[self.client_overrides][tag]))]
    ELSE [ref |-> self.default_settings, heap |-> h]

\* calculate_management_fee with the net income floored at zero
calculate_management_fee_floored(reservation_income, supplies_estimate, utilities_estimate, other_expenses, management_fee_percentage) ==
    LET net_income ==
            FSub(FSub(FSub(reservation_income, supplies_estimate),
                      utilities_estimate), other_expenses)
    IN  IF FLt(net_income, FZero) THEN FZero
        ELSE FMul(net_income, FDivInt(management_fee_percentage, 100))

calculate_management_fee(reservation_income, supplies_estimate, utilities_estimate, other_expenses, management_fee_percentage) ==
    LET net_income ==
            FSub(FSub(FSub(reservation_income, supplies_estimate),
                      utilities_estimate), other_expenses)
    IN  FMul(net_income, FDivInt(management_fee_percentage, 100))

\* calculate_supplies_estimate without the division by 100
calculate_supplies_estimate_undivided(cleaning_fees, supplies_percentage) ==
    FMul(cleaning_fees, supplies_percentage)

calculate_supplies_estimate(cleaning_fees, supplies_percentage) ==
    FMul(cleaning_fees, FDivInt(supplies_percentage, 100))

\* calculate_utilities_estimate without the division by 100
calculate_utilities_estimate_undivided(reservation_income, utilities_percentage) ==
    FMul(reservation_income, utilities_percentage)

calculate_utilities_estimate(reservation_income, utilities_percentage) ==
    FMul(reservation_income, FDivInt(utilities_percentage, 100))

\* settings[...] of a key the dict lacks raises KeyError
RaisesKeyError(settings) == ~(PctKeys \subseteq DOMAIN settings)

\* lines 151-165: the dict process_reservations_data returns
ProcessedRecord(tag, reservations_data, settings_ref, total_reservation_income, total_cleaning_fees, supplies_estimate, utilities_estimate, other_expenses, management_fee, owner_payout) ==
    [tag                |-> tag,
     total_reservations |-> Len(reservations_data),
     reservation_income |-> total_reservation_income,
     cleaning_fees      |-> total_cleaning_fees,
     supplies_estimate  |-> supplies_estimate,
     utilities_estimate |-> utilities_estimate,
     other_expenses     |-> other_expenses,
     management_fee     |-> management_fee,
     owner_payout       |-> owner_payout,
     management_payout  |-> management_fee,
     total_payouts      |-> FAdd(owner_payout, management_fee),
     settings           |-> settings_ref,
     reservations       |-> reservations_data]

\* lines 148-149: the owner payout
WithOwnerPayout(tag, reservations_data, settings_ref, total_reservation_income, total_cleaning_fees, supplies_estimate, utilities_estimate, other_expenses, management_fee) ==
    ProcessedRecord(tag, reservations_data, settings_ref,
        total_reservation_income, total_cleaning_fees,
        supplies_estimate, utilities_estimate, other_expenses,
        management_fee,
        FSub(FSub(FSub(FSub(total_reservation_income, supplies_estimate),
                       utilities_estimate), other_expenses),
             management_fee))

\* lines 139-146: the management fee
WithManagementFee(tag, reservations_data, settings_ref, settings, total_reservation_income, total_cleaning_fees, supplies_estimate, utilities_estimate, other_expenses) ==
    WithOwnerPayout(tag, reservations_data, settings_ref,
        total_reservation_income, total_cleaning_fees,
        supplies_estimate, utilities_estimate, other_expenses,
        calculate_management_fee(total_reservation_income,
            supplies_estimate, utilities_estimate, other_expenses,
            settings["management_fee_percentage"]))

\* lines 125-137: the estimates; other_expenses is 0
WithEstimates(tag, reservations_data, settings_ref, settings, total_reservation_income, total_cleaning_fees) ==
    WithManagementFee(tag, reservations_data, settings_ref, settings,
        total_reservation_income, total_cleaning_fees,
        calculate_supplies_estimate(total_cleaning_fees,
            settings["supplies_estimate_percentage"]),
        calculate_utilities_estimate(total_reservation_income,
            settings["utilities_estimate_percentage"]),
        FZero)

\* lines 121-165, for settings that have the percentage keys
ProcessedData(settings_ref, settings, reservations_data, tag) ==
    WithEstimates(tag, reservations_data, settings_ref, settings,
        Sum([i \in 1..Len(reservations_data) |->
                Get(reservations_data[i], "total_amount", FZero)]),
        Sum([i \in 1..Len(reservations_data) |->
                Get(reservations_data[i], "cleaning_fee", FZero)]))

\* s is what get_client_settings returned (line 119)
ProcessWith(s, reservations_data, tag) ==
    IF RaisesKeyError(s.heap[s.ref])
    THEN [raised |-> TRUE, heap |-> s.heap]
    ELSE [raised |-> FALSE, heap |-> s.heap,
          data |-> ProcessedData(s.ref, s.heap[s.ref],
                                 reservations_data, tag)]

\* [raised, data, heap]: the call raises KeyError, or returns data
process_reservations_data(self, h, reservations_data, tag) ==
    ProcessWith(get_client_settings(self, h, tag), reservations_data, tag)

create_statement_breakdown(processed_data) ==
    LET breakdown ==
            << [line_item |-> "Reservation Income",
                amount    |-> processed_data.reservation_income,
                type      |-> "income",
                payout_to |-> "N/A"],
               [line_item |-> "Supplies Estimate",
                amount    |-> FNeg(processed_data.supplies_estimate),
                type      |-> "expense",
                payout_to |-> "Management Company"],
               [line_item |-> "Utilities Estimate",
                amount    |-> FNeg(processed_data.utilities_estimate),
                type      |-> "expense",
                payout_to |-> "Management Company"],
               [line_item |-> "Management Fee",
                amount    |-> FNeg(processed_data.management_fee),
                type      |-> "expense",
                payout_to |-> "Management Company"],
               [line_item |-> "Owner Payout",
                amount    |-> processed_data.owner_payout,
                type      |-> "payout",
                payout_to |-> "Owner"] >>
    IN  IF FGt(processed_data.other_expenses, FZero)
        THEN ListInsert(breakdown, -1,
                        [line_item |-> "Other Expenses",
                         amount    |-> FNeg(processed_data.other_expenses),
                         type      |-> "expense",
                         payout_to |-> "Various"])
        ELSE breakdown

(***************************************************************************)
(* Module-level functions                                                  *)
(***************************************************************************)
get_sample_reservations(tag) ==
    << [reservation_id |-> "HSP001", property_tag |-> tag,
        guest_name |-> "John Doe",
        check_in |-> "2025-09-01", check_out |-> "2025-09-05",
        total_amount |-> FInt(1800), cleaning_fee |-> FInt(120),
        platform |-> "Airbnb", status |-> "completed"],
       [reservation_id |-> "HSP002", property_tag |-> tag,
        guest_name |-> "Jane Smith",
        check_in |-> "2025-09-10", check_out |-> "2025-09-15",
        total_amount |-> FInt(2500), cleaning_fee |-> FInt(150),
        platform |-> "VRBO", status |-> "completed"],
       [reservation_id |-> "HSP003", property_tag |-> tag,
        guest_name |-> "Mike Johnson",
        check_in |-> "2025-09-20", check_out |-> "2025-09-25",
        total_amount |-> FInt(2200), cleaning_fee |-> FInt(130),
        platform |-> "Booking.com", status |-> "completed"] >>

\* lines 279-288; verification_time, a wall-clock stamp nothing reads, is
\* left out
VerificationRecord(expected_amount, actual_balance, discrepancy) ==
    [expected_amount |-> expected_amount,
     actual_balance  |-> actual_balance,
     discrepancy     |-> discrepancy,
     is_match        |-> FLe(discrepancy, Dec(1, 100)),
     tolerance       |-> Dec(1, 100),
     status          |-> IF FLe(discrepancy, Dec(1, 100))
                         THEN "MATCH" ELSE "DISCREPANCY_FOUND",
     simulation      |-> TRUE]

\* WithActualBalance without abs()
WithActualBalanceSigned(expected_amount, actual_balance) ==
    VerificationRecord(expected_amount, actual_balance,
                       FSub(expected_amount, actual_balance))

\* line 277
WithActualBalance(expected_amount, actual_balance) ==
    VerificationRecord(expected_amount, actual_balance,
                       FAbs(FSub(expected_amount, actual_balance)))

simulate_bank_verification(expected_amount) ==
    WithActualBalance(expected_amount,
                      FAdd(expected_amount, Dec(2575, 100)))

\* lines 484-506: the entries of processed_data that are overwritten
Recalculated(processed_data, manual_expenses, total_manual_expenses, management_fee, owner_payout) ==
    [processed_data EXCEPT !.other_expenses = total_manual_expenses,
                           !.management_fee = management_fee,
                           !.owner_payout   = owner_payout,
                           !.total_payouts  =
                                FAdd(owner_payout, management_fee)]
        @@ [manual_expenses |-> manual_expenses]

\* lines 498-504
RecalculatePayout(processed_data, manual_expenses, total_manual_expenses, management_fee) ==
    Recalculated(processed_data, manual_expenses, total_manual_expenses,
        management_fee,
        FSub(FSub(FSub(FSub(processed_data.reservation_income,
                            processed_data.supplies_estimate),
                       processed_data.utilities_estimate),
                  total_manual_expenses),
             management_fee))

\* RecalculateFee that keeps the fee of the zero-expense pass
RecalculateFeeKept(processed_data, settings, manual_expenses, total_manual_expenses) ==
    RecalculatePayout(processed_data, manual_expenses,
        total_manual_expenses, processed_data.management_fee)

\* lines 488-495
RecalculateFee(processed_data, settings, manual_expenses, total_manual_expenses) ==
    RecalculatePayout(processed_data, manual_expenses,
        total_manual_expenses,
        calculate_management_fee(processed_data.reservation_income,
            processed_data.supplies_estimate,
            processed_data.utilities_estimate,
            total_manual_expenses,
            settings["management_fee_percentage"]))

\* lines 482-506: the processed data with the manual expenses added
AddManualExpenses(processed_data, settings, manual_expenses) ==
    RecalculateFee(processed_data, settings, manual_expenses,
        Sum([i \in 1..Len(manual_expenses) |->
                Get(manual_expenses[i], "amount", FZero)]))

\* lines 514-522: one line per manual expense, each put before the last line
RECURSIVE InsertManualExpenses(_, _, _)
InsertManualExpenses(breakdown, manual_expenses, i) ==
    IF i > Len(manual_expenses) THEN breakdown
    ELSE InsertManualExpenses(
            ListInsert(breakdown, -1,
                [line_item |-> Get(manual_expenses[i], "description",
                                   "Manual Expense"),
                 amount    |-> FNeg(Get(manual_expenses[i], "amount", FZero)),
                 type      |-> "expense",
                 payout_to |-> Get(manual_expenses[i], "payout_to",
                                   "Various")]),
            manual_expenses, i + 1)

\* lines 527-534: the result handed to display_statement_results
StatementResult(h, tag, month, processed_data, bank_verification, breakdown) ==
    [shown |-> [kind              |-> "statement",
                processed_data    |-> processed_data,
                bank_verification |-> bank_verification,
                breakdown         |-> breakdown,
                tag               |-> tag,
                month             |-> month,
                discrepancy_found |-> ~bank_verification.is_match],
     heap  |-> h]

\* lines 508-522
VerifyAndBreakDown(h, tag, month, manual_expenses, processed_data) ==
    StatementResult(h, tag, month, processed_data,
        simulate_bank_verification(processed_data.total_payouts),
        InsertManualExpenses(create_statement_breakdown(processed_data),
                             manual_expenses, 1))

\* GenerateFrom without the except branch
GenerateFromUncaught(p, tag, month, manual_expenses) ==
    IF p.raised
    THEN [shown |-> [kind |-> "uncaught"], heap |-> p.heap]
    ELSE VerifyAndBreakDown(p.heap, tag, month, manual_expenses,
            IF manual_expenses # <<>>
            THEN AddManualExpenses(p.data, p.heap[p.data.settings],
                                   manual_expenses)
            ELSE p.data)

\* lines 481-537; p is what process_reservations_data returned.  An
\* exception ends in the except branch, which shows the error.
GenerateFrom(p, tag, month, manual_expenses) ==
    IF p.raised
    THEN [shown |-> [kind |-> "error"], heap |-> p.heap]
    ELSE VerifyAndBreakDown(p.heap, tag, month, manual_expenses,
            IF manual_expenses # <<>>
            THEN AddManualExpenses(p.data, p.heap[p.data.settings],
                                   manual_expenses)
            ELSE p.data)

\* What generate_statement shows, and the heap after it.
generate_statement(self, h, tag, month, manual_expenses) ==
    GenerateFrom(process_reservations_data(self, h,
                     get_sample_reservations(tag), tag),
                 tag, month, manual_expenses)

(***************************************************************************)
(* The session: st.session_state.config, st.session_state.processor, the   *)
(* heap of their dicts, and what the current run of the script displays.   *)
(* Every interaction starts a new run of the script, which first drops     *)
(* what the run before it displayed (Rerun) and then, when a button was    *)
(* pressed, runs that button's handler: a handler starts from a display    *)
(* that shows nothing.                                                     *)
(***************************************************************************)
VARIABLES heap, config, processor, display

vars == <<heap, config, processor, display>>

NoDisplay == [kind |-> "none"]

Roots(cfg, proc, shown) ==
    {cfg.default_settings, cfg.client_overrides,
     proc.default_settings, proc.client_overrides}
        \cup (IF shown.kind = "statement"
              THEN {shown.processed_data.settings}
              ELSE IF shown.kind = "settings" THEN {shown.settings}
              ELSE IF shown.kind = "processed" THEN {shown.data.settings}
              ELSE IF shown.kind = "kept"
                   THEN {shown.first.processed_data.settings}
              ELSE IF shown.kind = "again"
                   THEN {shown.first.processed_data.settings,
                         shown.second.processed_data.settings}
              ELSE {})

\* the inputs the model draws
MaxExpenses == 2

Tags == {"480 Laswell Ave", "12 Oak St"}

\* the percentages typed into a settings form: management fee, supplies
\* estimate, utilities estimate
PctInputs ==
    { <<FInt(20), FInt(15), FInt(8)>>, <<Dec(7, 10), FInt(45), FInt(100)>> }

\* the percentages typed into the add-client form, whose number inputs
\* have neither a minimum nor a maximum (lines 831-833)
ClientPctInputs ==
    { <<FInt(20), FInt(15), FInt(8)>>,
      <<FInt(150), FNeg(FInt(5)), FInt(8)>> }

Months == {"2025-09"}

\* manual expenses as the form builds them: a description, an amount > 0
ExpenseInputs ==
    { [description |-> "Repair", amount |-> FInt(100),
       payout_to |-> "Contractor"],
      [description |-> "Light bulbs", amount |-> Dec(30, 100),
       payout_to |-> "Various"],
      [description |-> "Plumbing", amount |-> Dec(182415, 100),
       payout_to |-> "Plumber"],
      [description |-> "Renovation", amount |-> Canon(FALSE, <<1>>, 60),
       payout_to |-> "Builder"] }

ExpenseLists ==
    UNION { [1..n -> ExpenseInputs] : n \in 0..MaxExpenses }

\* lines 213-233: the config and the processor of a new session
InitSession ==
    /\ heap = (1 :> [management_fee_percentage     |-> FInt(20),
                     default_tag                   |-> "480 Laswell Ave",
                     supplies_estimate_percentage  |-> FInt(15),
                     utilities_estimate_percentage |-> FInt(8)])
           @@ (2 :> ("480 Laswell Ave" :>
                        [management_fee_percentage     |-> FInt(20),
                         supplies_estimate_percentage  |-> FInt(15),
                         utilities_estimate_percentage |-> FInt(8),
                         owner_name         |-> "Property Owner",
                         management_company |-> "Your Management Company"]))
    /\ config = [default_settings |-> 1, client_overrides |-> 2]
    /\ processor = OwnerStatementProcessor(config)

Init ==
    /\ InitSession
    /\ display = NoDisplay

\* lines 420-422: the tags the statement form offers
available_tags ==
    IF DOMAIN heap[config.client_overrides] # {}
    THEN DOMAIN heap[config.client_overrides]
    ELSE {heap[config.default_settings]["default_tag"]}

\* g is shown; the dicts nothing refers to any more are dropped
Show(g) ==
    /\ display' = g.shown
    /\ heap' = Collect(g.heap, Roots(config, processor, g.shown))
    /\ UNCHANGED <<config, processor>>

\* the statement form is submitted
GenerateStatement ==
    \E selected_tag \in available_tags, selected_month \in Months,
       manual_expenses \in ExpenseLists :
        /\ display = NoDisplay
        /\ Show(generate_statement(processor, heap, selected_tag,
                                   selected_month, manual_expenses))

\* SaveDefaults that writes the values into the existing default settings
\* dict
SaveDefaultsInPlace(mgmt_fee, supplies_pct, utilities_pct, default_tag, shown) ==
    /\ heap' = Collect(
            [heap EXCEPT ![config.default_settings] =
                [management_fee_percentage     |-> mgmt_fee,
                 supplies_estimate_percentage  |-> supplies_pct,
                 utilities_estimate_percentage |-> utilities_pct,
                 default_tag                   |-> default_tag]],
            Roots(config, processor, shown))
    /\ display' = shown
    /\ UNCHANGED <<config, processor>>

\* lines 809-820: "Save Default Settings" with the values of its form;
\* shown is what is displayed when the handler is done
SaveDefaults(mgmt_fee, supplies_pct, utilities_pct, default_tag, shown) ==
    LET a    == Alloc(heap)
        h    == heap @@ (a :>
                    [management_fee_percentage     |-> mgmt_fee,
                     supplies_estimate_percentage  |-> supplies_pct,
                     utilities_estimate_percentage |-> utilities_pct,
                     default_tag                   |-> default_tag])
        cfg  == [config EXCEPT !.default_settings = a]
        proc == OwnerStatementProcessor(cfg)
    IN  /\ config' = cfg
        /\ processor' = proc
        /\ display' = shown
        /\ heap' = Collect(h, Roots(cfg, proc, shown))

\* "Save Default Settings" is pressed
SaveDefaultSettings ==
    \E pct \in PctInputs, default_tag \in Tags :
        /\ display = NoDisplay
        /\ SaveDefaults(pct[1], pct[2], pct[3], default_tag, NoDisplay)

\* AddClientWith that only asks for a non-empty tag
AddClientOverwriting(new_tag, new_mgmt_fee, new_supplies, new_utilities, shown, failed) ==
    IF new_tag # ""
    THEN /\ processor' = OwnerStatementProcessor(config)
         /\ display' = shown
         /\ heap' = Collect(
                [heap EXCEPT ![config.client_overrides] = (new_tag :>
                     [management_fee_percentage     |-> new_mgmt_fee,
                      supplies_estimate_percentage  |-> new_supplies,
                      utilities_estimate_percentage |-> new_utilities,
                      owner_name         |-> "Owner",
                      management_company |-> "Company"]) @@ @],
                Roots(config, OwnerStatementProcessor(config), shown))
         /\ UNCHANGED config
    ELSE /\ display' = failed
         /\ UNCHANGED <<heap, config, processor>>

\* lines 838-853: "Add Client" with the values of its form; shown is what
\* is displayed after the client was added, failed after the error
AddClientWith(new_tag, new_mgmt_fee, new_supplies, new_utilities, shown, failed) ==
    IF new_tag # "" /\ new_tag \notin DOMAIN heap[config.client_overrides]
    THEN LET o == config.client_overrides
             h == [heap EXCEPT ![o] = (new_tag :>
                     [management_fee_percentage     |-> new_mgmt_fee,
                      supplies_estimate_percentage  |-> new_supplies,
                      utilities_estimate_percentage |-> new_utilities,
                      owner_name         |-> "Owner",
                      management_company |-> "Company"]) @@ heap[o]]
             proc == OwnerStatementProcessor(config)
         IN  /\ processor' = proc
             /\ display' = shown
             /\ heap' = Collect(h, Roots(config, proc, shown))
             /\ UNCHANGED config
    ELSE /\ display' = failed
         /\ UNCHANGED <<heap, config, processor>>

\* "Add Client" is pressed
AddClient ==
    \E new_tag \in Tags \cup {""}, pct \in ClientPctInputs :
        /\ display = NoDisplay
        /\ AddClientWith(new_tag, pct[1], pct[2], pct[3], NoDisplay,
                         [kind |-> "add_client_error"])

\* lines 873-879: the "Remove" button of tag; shown is what is displayed
\* when the handler is done
RemoveClientWith(tag, shown) ==
    LET o == config.client_overrides
        h == [heap EXCEPT ![o] = DictDel(heap[o], tag)]
        proc == OwnerStatementProcessor(config)
    IN  /\ processor' = proc
        /\ display' = shown
        /\ heap' = Collect(h, Roots(config, proc, shown))
        /\ UNCHANGED config

\* a client's "Remove" button is pressed
RemoveClient ==
    \E tag \in DOMAIN heap[config.client_overrides] :
        /\ display = NoDisplay
        /\ RemoveClientWith(tag, NoDisplay)

\* a new run of the script begins: what the last run displayed is dropped
Rerun ==
    /\ display' = NoDisplay
    /\ heap' = Collect(heap, Roots(config, processor, NoDisplay))
    /\ UNCHANGED <<config, processor>>

Next ==
    \/ GenerateStatement
    \/ SaveDefaultSettings
    \/ AddClient
    \/ RemoveClient
    \/ Rerun

Spec == Init /\ [][Next]_vars

(***************************************************************************)
(* get_client_settings on its own: a processor built from a config whose   *)
(* override for "480 Laswell Ave" holds any subset of the fields, asked    *)
(* for the settings of a tag.                                              *)
(***************************************************************************)
OverrideFields ==
    [management_fee_percentage     |-> Dec(125, 10),
     supplies_estimate_percentage  |-> FInt(30),
     utilities_estimate_percentage |-> FInt(5),
     owner_name                    |-> "Property Owner"]

PartialOverrides ==
    { [k \in K |-> OverrideFields[k]] : K \in SUBSET (DOMAIN OverrideFields) }

InitResolve ==
    \E pct \in PctInputs, default_tag \in Tags, o \in PartialOverrides :
        /\ heap = (1 :> [management_fee_percentage     |-> pct[1],
                         default_tag                   |-> default_tag,
                         supplies_estimate_percentage  |-> pct[2],
                         utilities_estimate_percentage |-> pct[3]])
               @@ (2 :> ("480 Laswell Ave" :> o))
        /\ config = [default_settings |-> 1, client_overrides |-> 2]
        /\ processor = OwnerStatementProcessor(config)
        /\ display = NoDisplay

\* s is what get_client_settings returned
ShowSettings(tag, s) ==
    /\ display' = [kind |-> "settings", tag |-> tag, settings |-> s.ref]
    /\ heap' = Collect(s.heap,
                       Roots(config, processor,
                             [kind |-> "settings", settings |-> s.ref]))
    /\ UNCHANGED <<config, processor>>

Resolve ==
    \E tag \in Tags :
        ShowSettings(tag, get_client_settings(processor, heap, tag))

NextResolve == Resolve

SpecResolve == InitResolve /\ [][NextResolve]_vars

(***************************************************************************)
(* The two estimate methods on their own, applied to non-negative totals   *)
(* and to percentages between 0 and 100.                                   *)
(***************************************************************************)
AmountInputs ==
    { FZero, Dec(1, 10), FInt(400), Dec(182415, 100), FInt(6500),
      Dec(1, 3) }

\* 99.99999999999999 is the largest float below 100
PercentInputs ==
    { FZero, Dec(7, 10), FInt(15), Dec(333, 10), Dec(999, 10),
      FSub(FInt(100), Canon(FALSE, <<1>>, -46)), FInt(100) }

InitEstimates ==
    \E cleaning_fees \in AmountInputs, reservation_income \in AmountInputs,
       supplies_percentage \in PercentInputs,
       utilities_percentage \in PercentInputs :
        /\ InitSession
        /\ display = [kind                 |-> "estimate_inputs",
                      cleaning_fees        |-> cleaning_fees,
                      reservation_income   |-> reservation_income,
                      supplies_percentage  |-> supplies_percentage,
                      utilities_percentage |-> utilities_percentage]

\* lines 124-133: the two estimates of the totals
Estimate ==
    /\ display.kind = "estimate_inputs"
    /\ display' = [display EXCEPT !.kind = "estimates"]
            @@ [supplies_estimate  |->
                    calculate_supplies_estimate(display.cleaning_fees,
                        display.supplies_percentage),
                utilities_estimate |->
                    calculate_utilities_estimate(display.reservation_income,
                        display.utilities_percentage)]
    /\ UNCHANGED <<heap, config, processor>>

NextEstimates == Estimate

SpecEstimates == InitEstimates /\ [][NextEstimates]_vars

(***************************************************************************)
(* process_reservations_data on its own, called on the session's processor *)
(* with reservation lists whose records may lack total_amount or           *)
(* cleaning_fee.                                                           *)
(***************************************************************************)
MaxReservations == 3

ReservationInputs ==
    { [reservation_id |-> "HSP001", total_amount |-> FInt(1800),
       cleaning_fee |-> FInt(120)],
      [reservation_id |-> "HSP002", total_amount |-> Dec(1, 10),
       cleaning_fee |-> Dec(2, 10)],
      [reservation_id |-> "HSP003", total_amount |-> Dec(2, 10)],
      [reservation_id |-> "HSP004", cleaning_fee |-> Dec(1, 10)],
      [reservation_id |-> "HSP005"] }

ReservationLists ==
    UNION { [1..n -> ReservationInputs] : n \in 0..MaxReservations }

\* p is what process_reservations_data returned or raised
ShowProcessed(p, reservations_data, tag) ==
    LET shown == IF p.raised THEN [kind |-> "error"]
                 ELSE [kind |-> "processed", tag |-> tag,
                       reservations_data |-> reservations_data,
                       data |-> p.data]
    IN  /\ display' = shown
        /\ heap' = Collect(p.heap, Roots(config, processor, shown))
        /\ UNCHANGED <<config, processor>>

Process ==
    \E reservations_data \in ReservationLists, tag \in Tags :
        /\ display = NoDisplay
        /\ ShowProcessed(process_reservations_data(processor, heap,
                             reservations_data, tag),
                         reservations_data, tag)

NextProcess == Process

SpecProcess == Init /\ [][NextProcess]_vars

(***************************************************************************)
(* A statement that is kept.  generate_statement is called for any tag,    *)
(* with or without an override, and the caller keeps the result together   *)
(* with the inputs of the call: the settings dict the result refers to     *)
(* stays on the heap.  While it is kept the configuration is edited, other *)
(* statements are computed, and the same statement is computed again.      *)
(***************************************************************************)
MaxEdits == 2

KeptExpenseLists ==
    { l \in ExpenseLists :
        /\ Len(l) <= 1
        /\ \A i \in 1..Len(l) : l[i].description \in {"Repair", "Light bulbs"} }

\* g is what generate_statement returned for manual_expenses
KeepStatement(g, manual_expenses) ==
    /\ g.shown.kind = "statement"
    /\ display' = [kind            |-> "kept",
                   first           |-> g.shown,
                   manual_expenses |-> manual_expenses,
                   settings0       |-> g.heap[g.shown.processed_data.settings],
                   defaults0       |-> heap[config.default_settings],
                   overrides0      |-> heap[config.client_overrides],
                   edits           |-> 0,
                   between         |-> FALSE]
    /\ heap' = Collect(g.heap, Roots(config, processor,
                                     [kind |-> "kept", first |-> g.shown]))
    /\ UNCHANGED <<config, processor>>

Keep ==
    \E tag \in Tags, month \in Months, manual_expenses \in KeptExpenseLists :
        /\ display = NoDisplay
        /\ KeepStatement(generate_statement(processor, heap, tag, month,
                                            manual_expenses),
                         manual_expenses)

\* another statement is computed and dropped
DropStatement(g) ==
    /\ display' = [display EXCEPT !.between = TRUE]
    /\ heap' = Collect(g.heap, Roots(config, processor, display))
    /\ UNCHANGED <<config, processor>>

ComputeOther ==
    \E tag \in Tags, month \in Months, manual_expenses \in KeptExpenseLists :
        /\ display.kind = "kept"
        /\ DropStatement(generate_statement(processor, heap, tag, month,
                                            manual_expenses))

\* the kept statement is computed a second time
KeepSecond(g) ==
    /\ g.shown.kind = "statement"
    /\ display' = [display EXCEPT !.kind = "again"] @@ [second |-> g.shown]
    /\ heap' = Collect(g.heap,
                   Roots(config, processor,
                         [kind |-> "again", first |-> display.first,
                          second |-> g.shown]))
    /\ UNCHANGED <<config, processor>>

ComputeAgain ==
    /\ display.kind = "kept"
    /\ KeepSecond(generate_statement(processor, heap, display.first.tag,
                      display.first.month, display.manual_expenses))

SaveDefaultSettingsKept ==
    \E pct \in PctInputs, default_tag \in Tags :
        /\ display.kind = "kept"
        /\ display.edits < MaxEdits
        /\ SaveDefaults(pct[1], pct[2], pct[3], default_tag,
                        [display EXCEPT !.edits = @ + 1])

AddClientKept ==
    \E new_tag \in Tags \cup {""}, pct \in ClientPctInputs :
        /\ display.kind = "kept"
        /\ display.edits < MaxEdits
        /\ AddClientWith(new_tag, pct[1], pct[2], pct[3],
                         [display EXCEPT !.edits = @ + 1], display)

RemoveClientKept ==
    \E tag \in DOMAIN heap[config.client_overrides] :
        /\ display.kind = "kept"
        /\ display.edits < MaxEdits
        /\ RemoveClientWith(tag, [display EXCEPT !.edits = @ + 1])

NextHeld ==
    \/ Keep
    \/ ComputeOther
    \/ ComputeAgain
    \/ SaveDefaultSettingsKept
    \/ AddClientKept
    \/ RemoveClientKept

SpecHeld == Init /\ [][NextHeld]_vars

(***************************************************************************)
(* A session whose stored config lacks fields.  Lines 213 and 232 keep a   *)
(* config and a processor that the session state already holds, whatever   *)
(* their dicts contain, and the processor takes any config: here the       *)
(* default settings and the override of "480 Laswell Ave" each hold any    *)
(* subset of the percentages.                                              *)
(***************************************************************************)
PartialDefaults ==
    { [k \in K \cup {"default_tag"} |->
          IF k = "default_tag" THEN "480 Laswell Ave"
          ELSE IF k = "management_fee_percentage" THEN FInt(20)
          ELSE IF k = "supplies_estimate_percentage" THEN FInt(15)
          ELSE FInt(8)] : K \in SUBSET PctKeys }

InitIncomplete ==
    \E d \in PartialDefaults, o \in PartialOverrides :
        /\ heap = (1 :> d) @@ (2 :> ("480 Laswell Ave" :> o))
        /\ config = [default_settings |-> 1, client_overrides |-> 2]
        /\ processor = OwnerStatementProcessor(config)
        /\ display = NoDisplay

NextIncomplete ==
    \/ GenerateStatement
    \/ Rerun

SpecIncomplete == InitIncomplete /\ [][NextIncomplete]_vars

(***************************************************************************)
(* Navigation.  The run of main that has just ended is a record: the       *)
(* session's current_page, the value of the sidebar selectbox, the page    *)
(* that was rendered, and whether a handler has called st.rerun() and the  *)
(* next run is still to come.  The configuration forms are on the          *)
(* Configuration page and the quick-action buttons on the Dashboard.       *)
(***************************************************************************)
Pages == {"Dashboard", "Generate Statement", "Configuration", "Reports", "Help"}

\* lines 1019-1042: a run of main with the sidebar reading display.sidebar
Main ==
    [display EXCEPT
        !.current_page = IF display.sidebar # display.current_page
                         THEN display.sidebar ELSE display.current_page,
        !.rendered     = IF display.sidebar # display.current_page
                         THEN display.sidebar ELSE display.current_page,
        !.rerun        = FALSE]

\* the first run of a new session
InitNavigate ==
    /\ InitSession
    /\ display = [kind |-> "page", current_page |-> "Dashboard",
                  sidebar |-> "Dashboard", rendered |-> "Dashboard",
                  rerun |-> FALSE]

\* the user picks a page in the sidebar, and main runs
SelectPage ==
    \E page \in Pages :
        /\ ~display.rerun
        /\ display' = [Main EXCEPT !.current_page = page,
                                   !.sidebar = page, !.rendered = page]
        /\ UNCHANGED <<heap, config, processor>>

\* lines 388-398: a quick-action button of the dashboard is pressed
QuickAction ==
    \E target \in {"Generate Statement", "Configuration", "Reports"} :
        /\ ~display.rerun
        /\ display.rendered = "Dashboard"
        /\ display' = [display EXCEPT !.current_page = target,
                                      !.rerun = TRUE]
        /\ UNCHANGED <<heap, config, processor>>

\* the run that st.rerun() asked for
RerunMain ==
    /\ display.rerun
    /\ display' = Main
    /\ UNCHANGED <<heap, config, processor>>

SaveDefaultSettingsOnPage ==
    \E pct \in PctInputs, default_tag \in Tags :
        /\ ~display.rerun
        /\ display.rendered = "Configuration"
        /\ SaveDefaults(pct[1], pct[2], pct[3], default_tag,
                        [display EXCEPT !.rerun = TRUE])

AddClientOnPage ==
    \E new_tag \in Tags \cup {""}, pct \in ClientPctInputs :
        /\ ~display.rerun
        /\ display.rendered = "Configuration"
        /\ AddClientWith(new_tag, pct[1], pct[2], pct[3],
                         [display EXCEPT !.rerun = TRUE], display)

RemoveClientOnPage ==
    \E tag \in DOMAIN heap[config.client_overrides] :
        /\ ~display.rerun
        /\ display.rendered = "Configuration"
        /\ RemoveClientWith(tag, [display EXCEPT !.rerun = TRUE])

NextNavigate ==
    \/ SelectPage
    \/ QuickAction
    \/ RerunMain
    \/ SaveDefaultSettingsOnPage
    \/ AddClientOnPage
    \/ RemoveClientOnPage

SpecNavigate == InitNavigate /\ [][NextNavigate]_vars

(***************************************************************************)
(* The claims.                                                             *)
(***************************************************************************)
IsStatement == display.kind = "statement"

\* reservation_income - supplies_estimate - utilities_estimate -
\* other_expenses, as Python evaluates it on the fields of a statement
NetIncome(pd) ==
    FSub(FSub(FSub(pd.reservation_income, pd.supplies_estimate),
              pd.utilities_estimate), pd.other_expenses)

\* the manual expenses a statement was generated with
ManualExpensesOf(pd) == Get(pd, "manual_expenses", <<>>)

AmountsOf(manual_expenses) ==
    [i \in 1..Len(manual_expenses) |-> manual_expenses[i].amount]

\* the statement's settings are those of the end-to-end scenario
SampleSettings(pd) ==
    /\ heap[pd.settings]["management_fee_percentage"] = FInt(20)
    /\ heap[pd.settings]["supplies_estimate_percentage"] = FInt(15)
    /\ heap[pd.settings]["utilities_estimate_percentage"] = FInt(8)

\* C1: in every generated statement, with or without manual expenses,
\* owner_payout + management_fee equals reservation_income -
\* supplies_estimate - utilities_estimate - other_expenses, and the stored
\* total_payouts is that same value.
C1_PayoutIdentity ==
    IsStatement =>
        /\ FAdd(display.processed_data.owner_payout,
                display.processed_data.management_fee)
              = NetIncome(display.processed_data)
        /\ display.processed_data.total_payouts
              = NetIncome(display.processed_data)

ExpectedLineItems(manual_expenses) ==
    <<"Reservation Income", "Supplies Estimate", "Utilities Estimate",
      "Management Fee">>
        \o [i \in 1..Len(manual_expenses) |-> manual_expenses[i].description]
        \o <<"Owner Payout">>

\* C2: the breakdown of a statement with n manual expenses is exactly
\* Reservation Income, Supplies Estimate, Utilities Estimate, Management
\* Fee, one line per manual expense in input order, Owner Payout: n + 5
\* lines and no other line.
C2_BreakdownLines ==
    IsStatement =>
        /\ Len(display.breakdown)
              = Len(ManualExpensesOf(display.processed_data)) + 5
        /\ [i \in 1..Len(display.breakdown) |-> display.breakdown[i].line_item]
              = ExpectedLineItems(ManualExpensesOf(display.processed_data))

\* C3: the first line of a breakdown has type income, the last has type
\* payout, and every line between them has type expense, so no income or
\* payout line appears anywhere else.
C3_BreakdownOrder ==
    IsStatement =>
        /\ Len(display.breakdown) >= 2
        /\ display.breakdown[1].type = "income"
        /\ display.breakdown[Len(display.breakdown)].type = "payout"
        /\ \A i \in 2..(Len(display.breakdown) - 1) :
              display.breakdown[i].type = "expense"

C3_Witness ==
    /\ IsStatement
    /\ Len(ManualExpensesOf(display.processed_data)) = 2
    /\ Len(display.breakdown) > 5
    /\ display.breakdown[1].type = "income"

\* C4: for a tag that has an override, get_client_settings returns for
\* every field the override's value when the override has the field and
\* the default's value otherwise; an override of management_fee_percentage
\* alone changes that field and no other.
C4_OverrideMerge ==
    (display.kind = "settings"
        /\ display.tag \in DOMAIN heap[config.client_overrides]) =>
        LET s == heap[display.settings]
            d == heap[config.default_settings]
            o == heap[config.client_overrides][display.tag]
        IN  /\ DOMAIN s = (DOMAIN d) \cup (DOMAIN o)
            /\ \A k \in DOMAIN s :
                  s[k] = IF k \in DOMAIN o THEN o[k] ELSE d[k]
            /\ DOMAIN o = {"management_fee_percentage"} =>
                  /\ s["management_fee_percentage"]
                        = o["management_fee_percentage"]
                  /\ \A k \in (DOMAIN d) \ {"management_fee_percentage"} :
                        s[k] = d[k]

C4_Witness ==
    /\ display.kind = "settings"
    /\ display.tag \in DOMAIN heap[config.client_overrides]
    /\ DOMAIN heap[config.client_overrides][display.tag]
          = {"management_fee_percentage"}
    /\ heap[display.settings]["management_fee_percentage"] = Dec(125, 10)
    /\ heap[config.default_settings]["management_fee_percentage"] = FInt(20)
    /\ heap[display.settings]["supplies_estimate_percentage"] = FInt(15)

\* C5: after any sequence of configuration edits, resolving any tag
\* through the session's processor yields a complete settings record (the
\* three percentages and default_tag) equal to the current defaults merged
\* with the tag's current override; a tag without an override gets the
\* current default settings themselves.
C5_ResolveComplete ==
    \A tag \in Tags \cup {"unknown tag"} :
        LET r == get_client_settings(processor, heap, tag)
            s == r.heap[r.ref]
            d == heap[config.default_settings]
            o == heap[config.client_overrides]
        IN  /\ PctKeys \cup {"default_tag"} \subseteq DOMAIN s
            /\ IF tag \in DOMAIN o
               THEN /\ DOMAIN s = (DOMAIN d) \cup (DOMAIN o[tag])
                    /\ \A k \in DOMAIN s :
                          s[k] = IF k \in DOMAIN o[tag] THEN o[tag][k]
                                 ELSE d[k]
               ELSE /\ r.ref = config.default_settings
                    /\ s = d

C5_Witness ==
    /\ display = NoDisplay
    /\ "480 Laswell Ave" \notin DOMAIN heap[config.client_overrides]
    /\ "12 Oak St" \in DOMAIN heap[config.client_overrides]
    /\ heap[config.default_settings]["management_fee_percentage"] = Dec(7, 10)
    /\ heap[config.client_overrides]["12 Oak St"]["management_fee_percentage"]
          = FInt(20)

\* the recomputation of C6, with the owner payout the sample is said to give
ManualExpensesRecomputed(sample_payout) ==
    IsStatement =>
        LET pd  == display.processed_data
            me  == ManualExpensesOf(display.processed_data)
            pct == heap[display.processed_data.settings]
                       ["management_fee_percentage"]
        IN  /\ me # <<>> =>
                  /\ pd.other_expenses = Sum(AmountsOf(me))
                  /\ pd.management_fee =
                        FMul(NetIncome(pd), FDivInt(pct, 100))
                  /\ pd.owner_payout = FSub(NetIncome(pd), pd.management_fee)
                  /\ pd.total_payouts =
                        FAdd(pd.owner_payout, pd.management_fee)
            /\ (SampleSettings(pd) /\ AmountsOf(me) = <<FInt(100)>>) =>
                  /\ pd.other_expenses = FInt(100)
                  /\ pd.management_fee = FInt(1164)
                  /\ pd.owner_payout = sample_payout
            /\ me = <<>> =>
                  /\ "manual_expenses" \notin DOMAIN pd
                  /\ pd = ProcessedData(pd.settings, heap[pd.settings],
                              get_sample_reservations(display.tag),
                              display.tag)

\* C6 as stated: with manual expenses, other_expenses is their sum and fee,
\* payout and total are the formulas evaluated from scratch; one expense of
\* 100.00 on the sample gives other_expenses 100.00, management_fee 1164.00
\* and owner_payout 4556.00; an empty list leaves the zero-expense result.
C6_Claimed == ManualExpensesRecomputed(FInt(4556))

\* C6, amended: the same, with owner_payout 4656.00 for the sample.
C6_Amended == ManualExpensesRecomputed(FInt(4656))

C6_Witness ==
    /\ IsStatement
    /\ SampleSettings(display.processed_data)
    /\ AmountsOf(ManualExpensesOf(display.processed_data)) = <<FInt(100)>>
    /\ display.processed_data.owner_payout = FInt(4656)

\* C7: the three sample reservations under settings of 20% management fee,
\* 15% supplies and 8% utilities give total_reservations 3, income 6500.00,
\* cleaning fees 400.00, supplies 60.00, utilities 520.00, other expenses
\* 0, management fee 1184.00, owner payout 4736.00, total payouts 5920.00.
C7_SampleScenario ==
    (IsStatement /\ SampleSettings(display.processed_data)
        /\ ManualExpensesOf(display.processed_data) = <<>>) =>
        /\ display.processed_data.total_reservations = 3
        /\ display.processed_data.reservation_income = FInt(6500)
        /\ display.processed_data.cleaning_fees = FInt(400)
        /\ display.processed_data.supplies_estimate = FInt(60)
        /\ display.processed_data.utilities_estimate = FInt(520)
        /\ display.processed_data.other_expenses = FZero
        /\ display.processed_data.management_fee = FInt(1184)
        /\ display.processed_data.owner_payout = FInt(4736)
        /\ display.processed_data.total_payouts = FInt(5920)

C7_Witness ==
    /\ IsStatement
    /\ SampleSettings(display.processed_data)
    /\ ManualExpensesOf(display.processed_data) = <<>>
    /\ display.processed_data.owner_payout = FInt(4736)

\* C8: every bank verification has actual_balance = expected_amount +
\* 25.75, discrepancy 25.75, is_match false and status DISCREPANCY_FOUND,
\* so every statement has discrepancy_found true.
C8_AlwaysDiscrepancy ==
    IsStatement =>
        /\ display.bank_verification.actual_balance
              = FAdd(display.bank_verification.expected_amount,
                     Dec(2575, 100))
        /\ display.bank_verification.discrepancy = Dec(2575, 100)
        /\ ~display.bank_verification.is_match
        /\ display.bank_verification.status = "DISCREPANCY_FOUND"
        /\ display.discrepancy_found

\* C9: in every bank verification discrepancy = |expected_amount -
\* actual_balance|, tolerance = 0.01, is_match holds iff discrepancy <=
\* tolerance, status is MATCH iff is_match and DISCREPANCY_FOUND otherwise,
\* discrepancy_found is the negation of is_match, and no run ends in an
\* error.
C9_VerificationFields ==
    /\ display.kind # "error"
    /\ IsStatement =>
        LET v == display.bank_verification
        IN  /\ v.discrepancy = FAbs(FSub(v.expected_amount, v.actual_balance))
            /\ v.tolerance = Dec(1, 100)
            /\ v.is_match <=> FLe(v.discrepancy, v.tolerance)
            /\ v.status \in {"MATCH", "DISCREPANCY_FOUND"}
            /\ v.status = "MATCH" <=> v.is_match
            /\ display.discrepancy_found <=> ~v.is_match

C9_Witness ==
    /\ IsStatement
    /\ display.bank_verification.is_match
    /\ display.bank_verification.status = "MATCH"
    /\ ~display.discrepancy_found

\* C10: management_fee is (reservation_income - supplies_estimate -
\* utilities_estimate - other_expenses) * fee_pct / 100 with no floor at
\* zero: a negative net income with a positive percentage gives a negative
\* fee, and the statement is produced all the same.
C10_FeeFormula ==
    /\ display.kind # "error"
    /\ IsStatement =>
        LET pd  == display.processed_data
            pct == heap[display.processed_data.settings]
                       ["management_fee_percentage"]
        IN  /\ pd.management_fee = FMul(NetIncome(pd), FDivInt(pct, 100))
            /\ (FLt(NetIncome(pd), FZero) /\ FGt(pct, FZero)) =>
                  FLt(pd.management_fee, FZero)

C10_Witness ==
    /\ IsStatement
    /\ ManualExpensesOf(display.processed_data) = <<>>
    /\ FLt(NetIncome(display.processed_data), FZero)
    /\ FLt(display.processed_data.management_fee, FZero)

\* C11: for non-negative total income and cleaning fees and percentages
\* between 0 and 100, supplies_estimate is cleaning_fees * pct / 100 and is
\* at most cleaning_fees, utilities_estimate is income * pct / 100 and is
\* at most income, and each equals its base at 100%.
C11_EstimateBounds ==
    display.kind = "estimates" =>
        /\ display.supplies_estimate =
              FMul(display.cleaning_fees,
                   FDivInt(display.supplies_percentage, 100))
        /\ FLe(display.supplies_estimate, display.cleaning_fees)
        /\ display.supplies_percentage = FInt(100) =>
              display.supplies_estimate = display.cleaning_fees
        /\ display.utilities_estimate =
              FMul(display.reservation_income,
                   FDivInt(display.utilities_percentage, 100))
        /\ FLe(display.utilities_estimate, display.reservation_income)
        /\ display.utilities_percentage = FInt(100) =>
              display.utilities_estimate = display.reservation_income

C11_Witness ==
    /\ display.kind = "estimates"
    /\ display.supplies_percentage = FInt(100)
    /\ display.cleaning_fees = Dec(182415, 100)
    /\ display.supplies_estimate = Dec(182415, 100)
    /\ display.utilities_percentage = Dec(333, 10)
    /\ display.reservation_income = FInt(6500)
    /\ FLt(display.utilities_estimate, display.reservation_income)
    /\ FGt(display.utilities_estimate, FZero)

\* the values of field k over the sequence, a record without it counting 0
FieldOrZero(reservations_data, k) ==
    [i \in 1..Len(reservations_data) |->
        IF k \in DOMAIN reservations_data[i] THEN reservations_data[i][k]
        ELSE FZero]

\* 0 + s[1] + ... + s[Len(s)], adding from the left
RECURSIVE LeftSum(_)
LeftSum(s) ==
    IF s = <<>> THEN FZero
    ELSE FAdd(LeftSum(SubSeq(s, 1, Len(s) - 1)), s[Len(s)])

\* C12: process_reservations_data sums total_amount into
\* reservation_income and cleaning_fee into cleaning_fees over the
\* sequence, a missing field counting as zero, reports the length of the
\* sequence as total_reservations, and for an empty sequence yields zero
\* income, cleaning fees, estimates, fee and payout without an error.
C12_Aggregation ==
    /\ display.kind # "error"
    /\ display.kind = "processed" =>
        /\ display.data.reservation_income =
              LeftSum(FieldOrZero(display.reservations_data, "total_amount"))
        /\ display.data.cleaning_fees =
              LeftSum(FieldOrZero(display.reservations_data, "cleaning_fee"))
        /\ display.data.total_reservations = Len(display.reservations_data)
        /\ display.reservations_data = <<>> =>
              /\ display.data.total_reservations = 0
              /\ display.data.reservation_income = FZero
              /\ display.data.cleaning_fees = FZero
              /\ display.data.supplies_estimate = FZero
              /\ display.data.utilities_estimate = FZero
              /\ display.data.other_expenses = FZero
              /\ display.data.management_fee = FZero
              /\ display.data.owner_payout = FZero
              /\ display.data.total_payouts = FZero

\* a list of three records of which two lack a field
C12_Witness ==
    /\ display.kind = "processed"
    /\ Len(display.reservations_data) = 3
    /\ "total_amount" \notin DOMAIN display.reservations_data[2]
    /\ "cleaning_fee" \notin DOMAIN display.reservations_data[3]
    /\ display.data.reservation_income =
          FAdd(FInt(1800), Dec(2, 10))
    /\ display.data.cleaning_fees = FAdd(FInt(120), Dec(1, 10))

\* the empty list
C12_WitnessEmpty ==
    /\ display.kind = "processed"
    /\ display.reservations_data = <<>>
    /\ display.data.owner_payout = FZero

\* a statement with the content of its settings dict in place of the
\* reference to it
StatementValue(shown, settings) ==
    [shown EXCEPT !.processed_data.settings = settings]

\* C13: computing a statement twice from the same reservations, tag,
\* manual expenses and settings, with other statements computed in
\* between, gives the same statement both times: a computation leaves
\* nothing behind that changes a later one.
C13_SameInputsSameStatement ==
    (display.kind = "again" /\ display.edits = 0) =>
        StatementValue(display.second,
                       heap[display.second.processed_data.settings])
            = StatementValue(display.first, display.settings0)

C13_Witness ==
    /\ display.kind = "again"
    /\ display.edits = 0
    /\ display.between
    /\ display.first.tag = "12 Oak St"
    /\ Len(display.manual_expenses) = 1
    /\ display.second.processed_data = display.first.processed_data

\* the override of tag in a client_overrides dict, if it has one
OverrideOf(overrides, tag) ==
    IF tag \in DOMAIN overrides THEN <<overrides[tag]>> ELSE <<>>

\* C14: a statement for tag A depends only on the defaults and on A's own
\* override: after overrides of other tags were added, removed or
\* replaced, and statements for other tags computed, computing A's
\* statement from the same reservations and manual expenses gives the same
\* result.
C14_TagIsolation ==
    (/\ display.kind = "again"
     /\ heap[config.default_settings] = display.defaults0
     /\ OverrideOf(heap[config.client_overrides], display.first.tag)
           = OverrideOf(display.overrides0, display.first.tag)) =>
        StatementValue(display.first, display.settings0)
            = StatementValue(display.second,
                             heap[display.second.processed_data.settings])

C14_Witness ==
    /\ display.kind = "again"
    /\ display.edits > 0
    /\ display.between
    /\ display.first.tag = "480 Laswell Ave"
    /\ heap[config.default_settings] = display.defaults0
    /\ "12 Oak St" \notin DOMAIN display.overrides0
    /\ "12 Oak St" \in DOMAIN heap[config.client_overrides]
    /\ heap[config.client_overrides]["12 Oak St"]["management_fee_percentage"]
          = FInt(150)
    /\ OverrideOf(heap[config.client_overrides], "480 Laswell Ave")
          = OverrideOf(display.overrides0, "480 Laswell Ave")

\* C15: the settings recorded in a computed statement keep their values
\* under every later configuration edit (save default settings, add
\* client, remove client), whether they are a merged copy or the default
\* settings dict itself: an edit replaces the stored dict and does not
\* write into it.
C15_SettingsKeepValues ==
    display.kind \in {"kept", "again"} =>
        heap[display.first.processed_data.settings] = display.settings0

\* the kept settings are the dict that was the default settings, and the
\* defaults have been saved with other values since
C15_Witness ==
    /\ display.kind = "kept"
    /\ display.first.tag = "12 Oak St"
    /\ display.settings0 = display.defaults0
    /\ display.edits > 0
    /\ display.first.processed_data.settings # config.default_settings
    /\ heap[config.default_settings]["management_fee_percentage"]
          = Dec(7, 10)
    /\ heap[display.first.processed_data.settings]
          ["management_fee_percentage"] = FInt(20)

\* C16: generating a statement leaves its inputs unchanged: the default
\* settings and every override are the same after the call as before it,
\* the config and the processor refer to the same dicts, and the
\* reservation records and the manual-expense list the result refers to
\* are the ones that were passed in.
C16_InputsUnchanged ==
    [][(display = NoDisplay /\ display'.kind \in {"statement", "error"}) =>
          /\ config' = config
          /\ processor' = processor
          /\ heap'[config.default_settings] = heap[config.default_settings]
          /\ heap'[config.client_overrides] = heap[config.client_overrides]
          /\ display'.kind = "statement" =>
                /\ display'.processed_data.reservations
                      = get_sample_reservations(display'.tag)
                /\ ManualExpensesOf(display'.processed_data) \in ExpenseLists
      ]_vars

\* a statement with one manual expense whose settings are a merged copy
C16_Witness ==
    /\ IsStatement
    /\ display.processed_data.settings # config.default_settings
    /\ display.tag \in DOMAIN heap[config.client_overrides]
    /\ Len(ManualExpensesOf(display.processed_data)) = 1
    /\ display.processed_data.reservations
          = get_sample_reservations(display.tag)

InRange(pct) == FLe(FZero, pct) /\ FLe(pct, FInt(100))

\* C17: after any sequence of configuration edits made through the forms
\* (save default settings, add client, remove client), every percentage
\* stored in the default settings and in every client override lies
\* between 0 and 100.
C17_PercentagesInRange ==
    /\ \A k \in PctKeys : InRange(heap[config.default_settings][k])
    /\ \A tag \in DOMAIN heap[config.client_overrides] :
          \A k \in PctKeys :
              InRange(heap[config.client_overrides][tag][k])

\* the settings that tag resolves to in the current configuration
ResolvedSettings(tag) ==
    IF tag \in DOMAIN heap[config.client_overrides]
    THEN [k \in (DOMAIN heap[config.default_settings])
                    \cup (DOMAIN heap[config.client_overrides][tag]) |->
             IF k \in DOMAIN heap[config.client_overrides][tag]
             THEN heap[config.client_overrides][tag][k]
             ELSE heap[config.default_settings][k]]
    ELSE heap[config.default_settings]

C19_AddClientGuard ==
    [][/\ display'.kind = "add_client_error" =>
             UNCHANGED <<heap, config, processor>>
       /\ "" \notin DOMAIN heap'[config'.client_overrides]
       /\ \A tag \in (DOMAIN heap[config.client_overrides])
                        \cap (DOMAIN heap'[config'.client_overrides]) :
             heap'[config'.client_overrides][tag]
                 = heap[config.client_overrides][tag]
      ]_vars

\* the error is shown in a configuration where both tags have an override
C19_Witness ==
    /\ display.kind = "add_client_error"
    /\ DOMAIN heap[config.client_overrides] = Tags
    /\ processor = OwnerStatementProcessor(config)

\* the amounts of the lines of a breakdown that are not payout lines
RECURSIVE NonPayoutAmounts(_)
NonPayoutAmounts(breakdown) ==
    IF breakdown = <<>> THEN <<>>
    ELSE IF breakdown[1].type = "payout"
         THEN NonPayoutAmounts(Tail(breakdown))
         ELSE <<breakdown[1].amount>> \o NonPayoutAmounts(Tail(breakdown))

\* C20: in every generated statement, with or without manual expenses, the
\* sum of the amounts of the breakdown's income line and expense lines is
\* the amount of its Owner Payout line: each deduction is in the breakdown
\* once.
C20_BreakdownSum ==
    IsStatement =>
        LeftSum(NonPayoutAmounts(display.breakdown))
            = display.breakdown[Len(display.breakdown)].amount

\* C21: pressing a quick-action button of the dashboard (Generate New
\* Statement, Configure Settings, View Sample Report) sets current_page to
\* the target page, and the run that follows renders that page although
\* the sidebar still reads Dashboard.
C21_QuickActionNavigates ==
    [][/\ (~display.rerun /\ display'.rerun
              /\ display'.current_page # display.current_page) =>
             /\ display'.current_page
                   \in {"Generate Statement", "Configuration", "Reports"}
             /\ display'.sidebar = "Dashboard"
       /\ (display.rerun /\ ~display'.rerun
              /\ display.sidebar = "Dashboard"
              /\ display.current_page # "Dashboard") =>
             /\ display'.rendered = display.current_page
             /\ display'.current_page = display.current_page
      ]_vars

====
